---- MODULE Spec2Model ----
(***************************************************************************)
(* Model of yark's archive synchronisation engine (src/yark/archive.py)    *)
(* as driven by the refresh command of src/yark/cli.py: Archive.load with  *)
(* _migrate_archive, Archive.metadata, Archive.download with _dl_launch,   *)
(* _dl_exception_handle, _skip_video and _curate, and Archive.commit with  *)
(* _backup.  The remote service (yt-dlp) and the file system are the       *)
(* environment: their answers are nondeterministic choices.                *)
(***************************************************************************)
EXTENDS Integers, Sequences, FiniteSets, TLC

(* ------------------------------ bounds -------------------------------- *)
\* ids the remote may list are 1..MaxId
MaxId == 2
\* entries in one fetched snapshot
MaxEntries == 2
\* refresh runs (processes started one after the other on the same store)
MaxRuns == 2
\* refresh runs of the specification of the ingestion passes
MaxPasses == 3
\* entries of a snapshot in the specification of the ingestion passes
MaxPassEntries == 1
\* refresh runs of the specification of the downloads
MaxDownloads == 1
\* whole refresh runs of one store
MaxRefreshes == 1
\* ids of the specification of the bucket order
MaxSortId == 4
\* entries of its snapshot
MaxSortEntries == 2
\* note requests the viewer handles at once
MaxRequests == 2
\* largest number of seconds of a note timestamp
MaxSeconds == 7325
\* items of the largest batch in the specification of the downloads
MaxBatch == 5
\* items of the videos bucket in the specification of the curation
MaxBucket == 10
\* items of the other buckets there
MaxSideBucket == 2
\* the largest maximum given for the videos bucket there
MaxCurateMaximum == 5

(* -------------------------- program constants ------------------------- *)
ARCHIVE_COMPAT == 4
\* the comment lines _backup writes before the text of yark.json
BackupCommentLines == 2
\* for i in range(3) of Archive.metadata
MetadataAttempts == 3
\* for i in range(5) of Archive.download
DownloadAttempts == 5

Ids == 1..MaxId
\* Optional[int]: None, or an integer
None == [some |-> FALSE, val |-> 0]
Some(n) == [some |-> TRUE, val |-> n]
BucketNames == {"videos", "livestreams", "shorts"}

(* ------------------------------ helpers ------------------------------- *)
\* dict[k] = v
Put(d, k, v) == [x \in (DOMAIN d) \cup {k} |-> IF x = k THEN v ELSE d[x]]
\* del dict[k]
Del(d, k) == [x \in (DOMAIN d) \ {k} |-> d[x]]
Last(s) == s[Len(s)]
Range(s) == {s[k] : k \in DOMAIN s}

\* "https://www.youtube.com/channel/" + encoded["id"]
ChannelUrl(id) == <<"https://www.youtube.com/channel/", id>>

(* ------------------- time-tracked values and items -------------------- *)
\* Element.new(video, data): a history with one entry
ElementNew(data) == <<data>>
\* Element.current(): the value of the last entry
Current(el) == Last(el)
\* Element.update(kind, data): appends only when the value differs
ElementUpdate(el, data) == IF Current(el) # data THEN Append(el, data) ELSE el

\* the recency key of an item: its upload date, fixed by the remote per id
Uploaded(id) == id \div 2

\* Video.new(config, entry, archive)
VideoNew(entry) ==
    [id |-> entry.id, uploaded |-> Uploaded(entry.id),
     title |-> ElementNew(entry.title), deleted |-> ElementNew(FALSE),
     comments |-> {}, notes |-> {}, known_not_deleted |-> TRUE]

\* Video.update(config, entry)
VideoUpdate(video, entry) ==
    [video EXCEPT !.title = ElementUpdate(@, entry.title),
                  !.deleted = ElementUpdate(@, FALSE),
                  !.known_not_deleted = TRUE]

\* Video._from_dict(encoded, archive): the presence mark is not persisted
VideoFromDict(d) ==
    [id |-> d.id, uploaded |-> d.uploaded, title |-> d.title,
     deleted |-> d.deleted, comments |-> d.comments, notes |-> d.notes,
     known_not_deleted |-> FALSE]

\* Video._to_dict()
VideoToDict(video) ==
    [id |-> video.id, uploaded |-> video.uploaded, title |-> video.title,
     deleted |-> video.deleted, comments |-> video.comments,
     notes |-> video.notes]

\* Video.downloaded(): a file named after the id exists under videos/
Downloaded(video, fs) == video.id \in fs

(* ----------------------------- ingestion ------------------------------ *)
\* Video.__lt__ under videos.sort(reverse=True): a stable sort, newest first
\* mutant: the item is put before the items of its own upload time
InsertBeforeEqual(sorted, video) ==
    LET after == {k \in 1..Len(sorted) : sorted[k].uploaded > video.uploaded}
        n == Cardinality(after)
    IN  SubSeq(sorted, 1, n) \o <<video>> \o SubSeq(sorted, n + 1, Len(sorted))

InsertNewestFirst(sorted, video) ==
    LET after == {k \in 1..Len(sorted) : sorted[k].uploaded >= video.uploaded}
        n == Cardinality(after)
    IN  \* sorted is newest-first, so the items not older than video are a prefix
        SubSeq(sorted, 1, n) \o <<video>> \o SubSeq(sorted, n + 1, Len(sorted))

RECURSIVE SortNewestFirst(_)
SortNewestFirst(videos) ==
    IF videos = <<>> THEN <<>>
    ELSE InsertNewestFirst(SortNewestFirst(SubSeq(videos, 1, Len(videos) - 1)),
                           Last(videos))

\* mutant: only the first item of the bucket is compared with the id
IndexOfIdFirstOnly(videos, id) ==
    IF videos # <<>> /\ videos[1].id = id THEN 1 ELSE 0

\* index of the first item of the bucket with this id, 0 when there is none
IndexOfId(videos, id) ==
    LET hits == {k \in 1..Len(videos) : videos[k].id = id}
    IN  IF hits = {} THEN 0 ELSE CHOOSE k \in hits : \A j \in hits : k <= j

\* mutant: only a missing "formats" field is passed over, not an empty list
ParseMetadataVideoOfEmptyFormats(entry, videos, added) ==
    IF entry.formats = "absent"
    THEN [videos |-> videos, added |-> added]
    ELSE LET k == IndexOfId(videos, entry.id)
         IN  IF k # 0
             THEN [videos |-> [videos EXCEPT ![k] = VideoUpdate(@, entry)],
                   added |-> added]
             ELSE [videos |-> Append(videos, VideoNew(entry)),
                   added |-> Append(added, entry.id)]

\* Archive._parse_metadata_video: [videos, added] after one entry
ParseMetadataVideo(entry, videos, added) ==
    IF entry.formats # "some"
    THEN [videos |-> videos, added |-> added]
    ELSE LET k == IndexOfId(videos, entry.id)
         IN  IF k # 0
             THEN [videos |-> [videos EXCEPT ![k] = VideoUpdate(@, entry)],
                   added |-> added]
             ELSE [videos |-> Append(videos, VideoNew(entry)),
                   added |-> Append(added, entry.id)]

RECURSIVE ParseEntries(_, _, _)
ParseEntries(entries, videos, added) ==
    IF entries = <<>> THEN [videos |-> videos, added |-> added]
    ELSE LET r == ParseMetadataVideo(Head(entries), videos, added)
         IN  ParseEntries(Tail(entries), r.videos, r.added)

\* Archive._parse_metadata: every entry, then the sort
ParseMetadata(entries, videos) ==
    LET r == ParseEntries(entries, videos, <<>>)
    IN  [videos |-> SortNewestFirst(r.videos), added |-> r.added]

\* mutant: an item is reported whenever this pass did not mark it present
ToReportDeletedAgain(video) == ~video.known_not_deleted

\* the condition of Archive._report_deleted for one item
ToReportDeleted(video) ==
    Current(video.deleted) = FALSE /\ ~video.known_not_deleted

\* mutant: the items reported deleted are taken out of the bucket
ReportDeletedRemoves(videos) ==
    [videos |-> SelectSeq(videos, LAMBDA v : ~ToReportDeleted(v)),
     deleted |-> <<>>]

\* Archive._report_deleted: [videos, deleted] for one bucket
ReportDeleted(videos) ==
    [videos |-> [k \in 1..Len(videos) |->
                    IF ToReportDeleted(videos[k])
                    THEN [videos[k] EXCEPT !.deleted = ElementUpdate(@, TRUE)]
                    ELSE videos[k]],
     deleted |-> LET RECURSIVE Ids_(_)
                     Ids_(k) == IF k > Len(videos) THEN <<>>
                                ELSE (IF ToReportDeleted(videos[k])
                                      THEN <<videos[k].id>> ELSE <<>>) \o Ids_(k + 1)
                 IN  Ids_(1)]

\* the sub-collection Archive.metadata hands to a bucket: the flat list goes to
\* videos; of labelled playlists the last one of each known kind wins
RECURSIVE SplitKind(_, _, _)
SplitKind(playlists, kind, sofar) ==
    IF playlists = <<>> THEN sofar
    ELSE SplitKind(Tail(playlists), kind,
                   IF Head(playlists).kind = kind THEN Head(playlists).entries
                   ELSE sofar)

KindOf(bucket) ==
    CASE bucket = "videos" -> "videos"
      [] bucket = "livestreams" -> "live"
      [] bucket = "shorts" -> "shorts"

SplitSnapshot(res, bucket) ==
    IF res.flat THEN (IF bucket = "videos" THEN res.entries ELSE <<>>)
    ELSE SplitKind(res.entries, KindOf(bucket), <<>>)

\* tag the ids of a report with the bucket they belong to
Tagged(bucket, ids) == [k \in 1..Len(ids) |-> <<bucket, ids[k]>>]

\* mutant: deletion detection only on the buckets the snapshot has
\* entries for
IngestMetadataOfListed(a, rep, res) ==
    LET Detect(b, videos) ==
            IF SplitSnapshot(res, b) = <<>>
            THEN [videos |-> videos, deleted |-> <<>>]
            ELSE ReportDeleted(videos)
        pv == ParseMetadata(SplitSnapshot(res, "videos"), a.videos)
        pl == ParseMetadata(SplitSnapshot(res, "livestreams"), a.livestreams)
        ps == ParseMetadata(SplitSnapshot(res, "shorts"), a.shorts)
        dv == Detect("videos", pv.videos)
        dl == Detect("livestreams", pl.videos)
        ds == Detect("shorts", ps.videos)
    IN  [archive |-> [a EXCEPT !.videos = dv.videos,
                               !.livestreams = dl.videos,
                               !.shorts = ds.videos],
         reporter |-> [added |-> rep.added \o Tagged("videos", pv.added)
                                    \o Tagged("livestreams", pl.added)
                                    \o Tagged("shorts", ps.added),
                       deleted |-> rep.deleted \o Tagged("videos", dv.deleted)
                                    \o Tagged("livestreams", dl.deleted)
                                    \o Tagged("shorts", ds.deleted)]]

\* Archive.metadata after the fetch: merge-or-create for the three
\* categories, then deletion detection on the three buckets
IngestMetadata(a, rep, res) ==
    LET pv == ParseMetadata(SplitSnapshot(res, "videos"), a.videos)
        pl == ParseMetadata(SplitSnapshot(res, "livestreams"), a.livestreams)
        ps == ParseMetadata(SplitSnapshot(res, "shorts"), a.shorts)
        dv == ReportDeleted(pv.videos)
        dl == ReportDeleted(pl.videos)
        ds == ReportDeleted(ps.videos)
    IN  [archive |-> [a EXCEPT !.videos = dv.videos,
                               !.livestreams = dl.videos,
                               !.shorts = ds.videos],
         reporter |-> [added |-> rep.added \o Tagged("videos", pv.added)
                                    \o Tagged("livestreams", pl.added)
                                    \o Tagged("shorts", ps.added),
                       deleted |-> rep.deleted \o Tagged("videos", dv.deleted)
                                    \o Tagged("livestreams", dl.deleted)
                                    \o Tagged("shorts", ds.deleted)]]

\* Archive.search: the item in a one-element sequence, none for
\* VideoNotFoundException
Search(a, id) ==
    IF IndexOfId(a.videos, id) = 0 THEN <<>>
    ELSE <<a.videos[IndexOfId(a.videos, id)]>>

(* ------------------------ encoding and decoding ----------------------- *)
MapSeq(Op(_), s) == [k \in 1..Len(s) |-> Op(s[k])]

\* Archive._from_dict: the author registry is decoded and then reset
ArchiveFromDict(encoded) ==
    LET decoded_authors == encoded.comment_authors
    IN  [version |-> encoded.version, url |-> encoded.url,
         videos |-> MapSeq(VideoFromDict, encoded.videos),
         livestreams |-> MapSeq(VideoFromDict, encoded.livestreams),
         shorts |-> MapSeq(VideoFromDict, encoded.shorts),
         comment_authors |-> {}]

\* Archive._to_dict
ArchiveToDict(a) ==
    [version |-> a.version, url |-> a.url,
     videos |-> MapSeq(VideoToDict, a.videos),
     livestreams |-> MapSeq(VideoToDict, a.livestreams),
     shorts |-> MapSeq(VideoToDict, a.shorts),
     comment_authors |-> a.comment_authors]

(* ------------------------------ curation ------------------------------ *)
Min(a, b) == IF a <= b THEN a ELSE b
Max(a, b) == IF a >= b THEN a ELSE b

\* mutant: a maximum of 0 counts as no maximum
FixedMaximumIfTruthy(len, maximum) ==
    IF maximum.some /\ maximum.val # 0
    THEN Min(Max(len - 1, 0), maximum.val) ELSE len

\* mutant: the maximum is fixed to the length, not to the length less one
FixedMaximumToLength(len, maximum) ==
    IF maximum.some THEN Min(len, maximum.val) ELSE len

\* fixed_maximum of curate_list, or the whole bucket when the maximum is None
FixedMaximum(len, maximum) ==
    IF maximum.some THEN Min(Max(len - 1, 0), maximum.val) ELSE len

\* curate_list: the not-downloaded items among the first FixedMaximum items,
\* as references <<bucket, position>> to the items of the archive
RECURSIVE CurateFrom(_, _, _, _, _)
CurateFrom(k, limit, bucket, videos, fs) ==
    IF k > limit THEN <<>>
    ELSE (IF ~Downloaded(videos[k], fs) THEN <<(<<bucket, k>>)>> ELSE <<>>)
         \o CurateFrom(k + 1, limit, bucket, videos, fs)

CurateList(bucket, videos, maximum, fs) ==
    CurateFrom(1, FixedMaximum(Len(videos), maximum), bucket, videos, fs)

\* Archive._curate
Curate(a, cfg, fs) ==
    CurateList("videos", a.videos, cfg.max_videos, fs)
    \o CurateList("livestreams", a.livestreams, cfg.max_livestreams, fs)
    \o CurateList("shorts", a.shorts, cfg.max_shorts, fs)

\* the item of the archive a reference of the curated list points to
Deref(a, ref) == a[ref[1]][ref[2]]

(* --------------------------- download errors -------------------------- *)
PRIVATE == "Private video"
REMOVED == "This video has been removed by the uploader"
MISMATCH == " bytes, expected "
\* a DownloadError message, as the set of known phrases it contains
Messages == {{}, {PRIVATE}, {REMOVED}, {MISMATCH}, {PRIVATE, MISMATCH}}

\* mutant: only the first phrase is looked for
IsPrivateOnly(msg) == PRIVATE \in msg

\* mutant: the byte-count phrase is taken for a private/removed one too
IsPrivateRemovedOrMismatch(msg) == msg # {}

\* the test of the first branch of Archive._dl_exception_handle
IsPrivateOrRemoved(msg) == PRIVATE \in msg \/ REMOVED \in msg
\* the test of its second branch
IsMismatch(msg) == ~IsPrivateOrRemoved(msg) /\ MISMATCH \in msg

\* _skip_video: position in the list of the first item not downloaded, 0 if none
SkipIndex(a, list, fs) ==
    LET open == {k \in 1..Len(list) : ~Downloaded(Deref(a, list[k]), fs)}
    IN  IF open = {} THEN 0 ELSE CHOOSE k \in open : \A j \in open : k <= j

\* mutant: every private or removed item is taken for a new occurrence
NewOccurrenceAlways(video) == TRUE

\* _dl_exception_handle: if video.deleted.current() == False
NewOccurrence(video) == Current(video.deleted) = FALSE

\* mutant: videos[ind:], the skipped item stays on the list
SkipRestKeeps(list, ind) == SubSeq(list, ind, Len(list))

\* _skip_video: videos[ind + 1:]
SkipRest(list, ind) == SubSeq(list, ind + 1, Len(list))

(* ------------------------------ migration ----------------------------- *)
\* the structural edit of migrate_step for a known version below the target
AddKey(k, v, ds) == [j \in 1..Len(ds) |-> Put(ds[j], k, v)]

\* mutant: the id is kept as the url instead of the url derived from it
MigrateFrom1KeepsId(encoded) ==
    Put(Put(Put(Del(encoded, "id"), "url", <<encoded.id>>),
            "livestreams", <<>>), "shorts", <<>>)

\* 1 -> 2: the channel id becomes a url, livestreams and shorts are added
MigrateFrom1(encoded) ==
    Put(Put(Put(Del(encoded, "id"), "url", ChannelUrl(encoded.id)),
            "livestreams", <<>>), "shorts", <<>>)

\* 2 -> 3: every item gets a deleted history
MigrateFrom2(encoded) ==
    Put(Put(Put(encoded,
        "videos", AddKey("deleted", ElementNew(FALSE), encoded.videos)),
        "livestreams", AddKey("deleted", ElementNew(FALSE), encoded.livestreams)),
        "shorts", AddKey("deleted", ElementNew(FALSE), encoded.shorts))

\* 3 -> 4: every item gets comments, the archive an author registry
MigrateFrom3(encoded) ==
    Put(Put(Put(Put(encoded, "comment_authors", {}),
        "videos", AddKey("comments", {}, encoded.videos)),
        "livestreams", AddKey("comments", {}, encoded.livestreams)),
        "shorts", AddKey("comments", {}, encoded.shorts))

MigrateEdit(cur, encoded) ==
    CASE cur = 1 -> MigrateFrom1(encoded)
      [] cur = 2 -> MigrateFrom2(encoded)
      [] cur = 3 -> MigrateFrom3(encoded)

\* the versions migrate_step has a transition for
KnownVersions == {1, 2, 3}

(* ------------------------------- state -------------------------------- *)
VARIABLES
    pc,                 \* where the refresh process is; "idle" before the first run
    run,                \* number of refresh runs started so far
    yark_json,          \* the file yark.json: [st, data]
    yark_bak,           \* the file yark.bak: [st, data] (data: the json it
                        \* copies), with the count of its comment lines
    dirs,               \* which of thumbnails/ and images/ exist
    files,              \* ids with a media file under videos/
    config,             \* the Config of this run
    encoded,            \* the dict Archive.load decodes and migrates
    cur,                \* migrate_step's cur
    archive,            \* the Archive in memory
    reporter,           \* archive.reporter: [added, deleted]
    i,                  \* the outer attempt of Archive.download
    not_downloaded,     \* the remaining-work list of this attempt
    res,                \* the snapshot Archive.metadata ingested in this run
    committed,          \* what the last completed commit wrote to yark.json
    stamp,              \* a note timestamp shown and read back by the
                        \* viewer: [pc, secs, text, back]
    viewer,             \* the note requests the viewer is handling, each
                        \* [pc, archive, id, save] of its own thread
    hist                \* history of this and the previous run, for the properties

vars == <<pc, run, yark_json, yark_bak, dirs, files, config, encoded, cur,
          archive, reporter, i, not_downloaded, res, committed, stamp, viewer, hist>>

NoData == [version |-> -1]
Requests == 1..MaxRequests
NoFile == [st |-> "none", data |-> NoData]
\* a file opened with "w+" and not written to the end
PartialFile == [st |-> "partial", data |-> NoData]
FullFile(data) == [st |-> "full", data |-> data]

NoArchive ==
    [version |-> -1, url |-> <<>>, videos |-> <<>>, livestreams |-> <<>>,
     shorts |-> <<>>, comment_authors |-> {}]
NoReporter == [added |-> <<>>, deleted |-> <<>>]
NoRes == [flat |-> TRUE, entries |-> <<>>]
NoStamp == [pc |-> "idle", secs |-> 0, text |-> <<>>, back |-> None]
NoViewer ==
    [r \in Requests |-> [pc |-> "idle", archive |-> NoArchive, id |-> 0,
                         save |-> NoFile]]

\* Config(): nothing set
DefaultConfig ==
    [max_videos |-> None, max_livestreams |-> None, max_shorts |-> None,
     skip_metadata |-> FALSE, skip_download |-> FALSE]

(* --------------------------- initial stores --------------------------- *)
TitleA == "A"
TitleB == "B"
TitleValues == {TitleA, TitleB}

\* an item as a store of the given version persists it
StoredItem(version, id) ==
    LET v1 == [id |-> id, uploaded |-> Uploaded(id), title |-> ElementNew(TitleA),
               notes |-> {}]
        v3 == IF version >= 3 THEN Put(v1, "deleted", ElementNew(FALSE)) ELSE v1
    IN  IF version >= 4 THEN Put(v3, "comments", {}) ELSE v3

\* the ids of a set as a bucket lists them: newest first, equal keys by id
RECURSIVE BucketOf(_)
BucketOf(ids) ==
    IF ids = {} THEN <<>>
    ELSE LET first == CHOOSE x \in ids : \A y \in ids :
                          \/ Uploaded(x) > Uploaded(y)
                          \/ Uploaded(x) = Uploaded(y) /\ x <= y
         IN  <<first>> \o BucketOf(ids \ {first})

ChannelId == "UC"

\* a store as a yark of the given schema version persists it
StoredArchive(version, vids, lives, authors) ==
    LET v1 == [version |-> version, id |-> ChannelId,
               videos |-> [k \in 1..Len(vids) |-> StoredItem(version, vids[k])]]
        v2 == Put(Put(Put(Del(v1, "id"), "url", ChannelUrl(ChannelId)),
                  "livestreams", [k \in 1..Len(lives) |-> StoredItem(version, lives[k])]),
                  "shorts", <<>>)
        v4 == Put(v2, "comment_authors", authors)
    IN  IF version >= 4 THEN v4 ELSE IF version >= 2 THEN v2 ELSE v1

\* the schema versions of the stores the runs start from: the known ones
\* and one unknown version on either side
InitVersions == 0..(ARCHIVE_COMPAT + 1)

NoHist ==
    [migrated |-> <<>>,         \* versions migrate_step has left, in order
     loaded_from |-> -1,        \* version of the store this run loaded
     pre |-> NoArchive,         \* the archive as loaded, before ingestion
     passes |-> <<>>,           \* [confirmed, listed] of the last two
                                \* committed ingestion passes, oldest first
     ingested |-> FALSE,        \* this run ingested a snapshot
     confirmed |-> {},          \* <<bucket, id>> its snapshot confirmed present
     listed |-> {},             \* <<bucket, id>> its snapshot listed at all
     downloading |-> FALSE,     \* Archive.download was entered
     curated |-> <<>>,          \* the list its first attempt curated
     got |-> {},                \* ids it downloaded
     failed |-> {},             \* ids a private/removed error was raised at
     clean |-> TRUE,            \* no other error was raised
     skipped_before |-> {},     \* items skipped in an earlier outer attempt
     skipped_now |-> {},        \* items skipped in this outer attempt
     requests |-> 0,            \* bulk requests issued in this outer attempt
     batch |-> 0,               \* items this outer attempt curated
     last |-> "",               \* phrases of the last DownloadError: "deleted"
                                \* for a private/removed one, else "mismatch"
                                \* for the byte-count one, else "other"
     converter |-> FALSE,       \* Archive.download ran the Converter
     exhausted |-> "",          \* the phase whose last attempt failed
     migration_error |-> "",    \* why migrate_step exited: "unknown", "rename"
     loaded_ok |-> FALSE,       \* yark.json as it is now was loaded by a run
     unset |-> BucketNames,     \* categories the arguments gave no maximum
     searched |-> 0,            \* the id Archive.search was called with
     found |-> <<>>,            \* the item it returned, none if it raised
     steps |-> <<>>]            \* the calls of _cli this run has returned
                                \* from or skipped, and "commit" once entered

InitWith(store, fs) ==
    /\ pc = "idle"
    /\ run = 0
    /\ yark_json = FullFile(store)
    /\ committed = store
    /\ dirs = [thumbnails |-> store.version < 4, images |-> store.version >= 4]
    /\ yark_bak = NoFile
    /\ files = fs
    /\ config = DefaultConfig
    /\ encoded = NoData
    /\ cur = -1
    /\ archive = NoArchive
    /\ reporter = NoReporter
    /\ i = 0
    /\ not_downloaded = <<>>
    /\ res = NoRes
    /\ hist = NoHist
    /\ viewer = NoViewer
    /\ stamp = NoStamp

\* stores of every schema version, with at most one video and, where the
\* version has them, one livestream and an author registry
StoresOfAllVersions ==
    {StoredArchive(version, vids, lives, authors) :
        version \in InitVersions, vids \in {<<>>, <<1>>},
        lives \in {<<>>, <<2>>}, authors \in {{}, {"author"}}}

\* stores of the current version, every bucket holding any of the ids
StoresOfItems ==
    {Put(StoredArchive(ARCHIVE_COMPAT, BucketOf(vids), BucketOf(lives), {}),
         "shorts", [k \in 1..Len(BucketOf(shorts)) |->
                       StoredItem(ARCHIVE_COMPAT, BucketOf(shorts)[k])]) :
        vids \in SUBSET Ids, lives \in SUBSET Ids, shorts \in SUBSET {1}}

(* ------------------------------- inputs ------------------------------- *)
\* the largest maximum a refresh is given
MaxMaximum == 1
Maxima == {None} \cup {Some(n) : n \in 0..MaxMaximum}

\* mutant: the maxima are left as the arguments gave them
ConfigSubmitKeeps(cfg) == cfg

\* Config.submit(): if a maximum is set, unset categories won't be downloaded
ConfigSubmit(cfg) ==
    IF cfg.max_videos.some \/ cfg.max_livestreams.some \/ cfg.max_shorts.some
    THEN [cfg EXCEPT
            !.max_videos = IF @.some THEN @ ELSE Some(0),
            !.max_livestreams = IF @.some THEN @ ELSE Some(0),
            !.max_shorts = IF @.some THEN @ ELSE Some(0)]
    ELSE cfg

\* the Config the argument loop of _cli builds
RefreshArgs ==
    [max_videos : Maxima, max_livestreams : Maxima, max_shorts : Maxima,
     skip_metadata : BOOLEAN, skip_download : BOOLEAN]

\* an entry of a snapshot; the title of an entry without formats is never read
Entries ==
    [id : Ids, title : TitleValues, formats : {"some"}]
    \cup [id : Ids, title : {TitleA}, formats : {"absent", "empty"}]

SeqsUpTo(S, n) == UNION {[1..k -> S] : k \in 0..n}

\* the last part of a playlist title, lower-cased
Kinds == {"videos", "live", "shorts", "other"}
\* playlists one snapshot lists
MaxPlaylists == 1

\* lists of at most count labelled playlists with at most n entries in all
RECURSIVE PlaylistsWithin(_, _)
PlaylistsWithin(count, n) ==
    IF count = 0 THEN {<<>>}
    ELSE {<<>>} \cup
         UNION {LET rests == PlaylistsWithin(count - 1, n - k)
                IN  {<<[kind |-> kind, entries |-> es]>> \o rest :
                        kind \in Kinds, es \in [1..k -> Entries], rest \in rests} :
                k \in 0..n}

PlaylistSeqs(n) == PlaylistsWithin(MaxPlaylists, n) \ {<<>>}

\* what ydl.extract_info returns with at most n entries: a flat list of
\* entries (possibly none), or a list of labelled playlists
SnapshotsOf(n) ==
    {[flat |-> TRUE, entries |-> es] : es \in SeqsUpTo(Entries, n)}
    \cup {[flat |-> FALSE, entries |-> ps] : ps \in PlaylistSeqs(n)}

\* <<bucket, id>> of the entries with formats a snapshot lists for a bucket
ConfirmedBy(snapshot) ==
    UNION {{<<b, SplitSnapshot(snapshot, b)[k].id>> :
              k \in {j \in 1..Len(SplitSnapshot(snapshot, b)) :
                        SplitSnapshot(snapshot, b)[j].formats = "some"}} :
           b \in BucketNames}

\* <<bucket, id>> of every entry a snapshot lists for a bucket
ListedBy(snapshot) ==
    UNION {{<<b, SplitSnapshot(snapshot, b)[k].id>> :
              k \in 1..Len(SplitSnapshot(snapshot, b))} : b \in BucketNames}

(* ------------------------------- actions ------------------------------ *)
\* the process ends without a commit: sys.exit(1), an uncaught exception or
\* a kill; what it held in memory is gone
Halt ==
    /\ pc' = "halted"
    /\ config' = DefaultConfig
    /\ encoded' = NoData
    /\ cur' = -1
    /\ archive' = NoArchive
    /\ reporter' = NoReporter
    /\ i' = 0
    /\ not_downloaded' = <<>>
    /\ res' = NoRes

\* what the next run is told of this one
Carry(h) ==
    LET all == Append(h.passes, [confirmed |-> h.confirmed, listed |-> h.listed])
    IN  [NoHist EXCEPT !.passes = IF ~h.ingested THEN h.passes
                                  ELSE IF Len(all) > 2 THEN Tail(all) ELSE all,
                       !.steps = h.steps]

\* what a run starting at p knows of the run before it: nothing of a run
\* that halted
Known(p, h) ==
    IF p = "halted"
    THEN [NoHist EXCEPT !.passes = h.passes, !.loaded_ok = h.loaded_ok]
    ELSE [h EXCEPT !.steps = <<>>]

\* the categories the arguments give no maximum
UnsetIn(args) ==
    {b \in BucketNames :
        CASE b = "videos" -> args.max_videos = None
          [] b = "livestreams" -> args.max_livestreams = None
          [] b = "shorts" -> args.max_shorts = None}

\* `yark refresh`: the argument loop, config.submit() and Archive.load up to
\* the version check
Refresh(args) ==
    /\ pc \in {"idle", "done", "halted"}
    /\ run' = run + 1
    /\ UNCHANGED <<stamp, viewer>>
    /\ UNCHANGED <<yark_json, yark_bak, dirs, files, committed>>
    /\ IF yark_json.st # "full"
       THEN \* open() or json.load() raises
            /\ Halt
            /\ hist' = Known("halted", hist)
       ELSE /\ config' = ConfigSubmit(args)
            /\ reporter' = NoReporter
            /\ i' = 0
            /\ not_downloaded' = <<>>
            /\ res' = NoRes
            /\ IF yark_json.data.version # ARCHIVE_COMPAT
               THEN /\ pc' = "migrate"
                    /\ encoded' = yark_json.data
                    /\ cur' = yark_json.data.version
                    /\ archive' = NoArchive
                    /\ hist' = [Known(pc, hist) EXCEPT
                                  !.loaded_from = yark_json.data.version,
                                  !.unset = UnsetIn(args)]
               ELSE /\ pc' = "loaded"
                    /\ encoded' = NoData
                    /\ cur' = -1
                    /\ archive' = ArchiveFromDict(yark_json.data)
                    /\ hist' = [Known(pc, hist) EXCEPT
                                  !.loaded_from = yark_json.data.version,
                                  !.pre = ArchiveFromDict(yark_json.data),
                                  !.unset = UnsetIn(args),
                                  !.loaded_ok = TRUE,
                                  !.steps = <<"load">>]

\* the directory rename of the 3 -> 4 step succeeds iff thumbnails/ exists
RenameSucceeds == dirs.thumbnails

\* mutant: the directory is renamed before the exit
MigrateExitRenames ==
    /\ Halt
    /\ dirs' = [thumbnails |-> FALSE, images |-> TRUE]

\* migrate_step: unknown version, or the rename failed: sys.exit(1)
MigrateExit ==
    /\ Halt
    /\ UNCHANGED dirs

\* one call of migrate_step
MigrateStep ==
    /\ pc = "migrate"
    /\ UNCHANGED <<stamp, viewer, run, yark_json, yark_bak, files, committed>>
    /\ IF cur = ARCHIVE_COMPAT
       THEN \* the desired version is reached: Archive._from_dict
            /\ pc' = "loaded"
            /\ archive' = ArchiveFromDict(encoded)
            /\ encoded' = NoData
            /\ cur' = -1
            /\ hist' = [hist EXCEPT !.pre = ArchiveFromDict(encoded),
                                    !.loaded_ok = TRUE,
                                    !.steps = Append(@, "load")]
            /\ UNCHANGED <<dirs, config, reporter, i, not_downloaded, res>>
       ELSE IF cur \in KnownVersions /\ (cur = 3 => RenameSucceeds)
       THEN /\ encoded' = Put(MigrateEdit(cur, encoded), "version", cur + 1)
            /\ cur' = cur + 1
            /\ dirs' = IF cur = 3 THEN [thumbnails |-> FALSE, images |-> TRUE]
                       ELSE dirs
            /\ hist' = [hist EXCEPT !.migrated = Append(@, cur)]
            /\ UNCHANGED <<pc, archive, config, reporter, i, not_downloaded, res>>
       ELSE /\ MigrateExit
            /\ hist' = [hist EXCEPT !.migration_error =
                                      IF cur = 3 THEN "rename" ELSE "unknown"]

\* mutant: every failed attempt is followed by another one
RetryingAlways(attempt, attempts) == TRUE

\* retrying = i != 2 of Archive.metadata, i != 4 of Archive.download
Retrying(attempt, attempts) == attempt # attempts - 1

\* Archive.metadata: a fetch attempt fails; _err_dl waits for the next
\* attempt, or exits after the last one
MetadataFails ==
    /\ pc = "loaded"
    /\ ~config.skip_metadata
    /\ UNCHANGED <<stamp, viewer, run, yark_json, yark_bak, dirs, files, committed>>
    /\ IF Retrying(i, MetadataAttempts)
       THEN /\ i' = i + 1
            /\ UNCHANGED <<pc, config, encoded, cur, archive, reporter,
                           not_downloaded, res, hist>>
       ELSE /\ Halt
            /\ hist' = [Known("halted", hist) EXCEPT !.exhausted = "metadata"]

\* Archive.metadata: a fetch succeeds and its snapshot is ingested
Metadata(snapshot) ==
    /\ pc = "loaded"
    /\ ~config.skip_metadata
    /\ UNCHANGED <<stamp, viewer, run, yark_json, yark_bak, dirs, files, committed>>
    /\ IF snapshot.entries = <<>>
       THEN \* res["entries"][0] raises IndexError
            /\ Halt
            /\ hist' = Known("halted", hist)
       ELSE LET r == IngestMetadata(archive, reporter, snapshot)
            IN  /\ archive' = r.archive
                /\ reporter' = r.reporter
                /\ res' = snapshot
                /\ pc' = "ingested"
                /\ hist' = [hist EXCEPT !.ingested = TRUE,
                                        !.confirmed = ConfirmedBy(snapshot),
                                        !.listed = ListedBy(snapshot),
                                        !.steps = Append(@, "metadata")]
                /\ i' = 0
                /\ UNCHANGED <<config, encoded, cur, not_downloaded>>

\* mutant: with --skip-metadata the download is passed over as well
SkipMetadataAndDownload ==
    /\ pc = "loaded"
    /\ config.skip_metadata
    /\ pc' = "commit"
    /\ hist' = [hist EXCEPT !.steps = Append(@, "skip_metadata")]
    /\ UNCHANGED <<stamp, viewer, run, yark_json, yark_bak, dirs, files, committed, config,
                   encoded, cur, archive, reporter, i, not_downloaded, res>>

\* _cli: --skip-metadata
SkipMetadata ==
    /\ pc = "loaded"
    /\ config.skip_metadata
    /\ pc' = "ingested"
    /\ hist' = [hist EXCEPT !.steps = Append(@, "skip_metadata")]
    /\ UNCHANGED <<stamp, viewer, run, yark_json, yark_bak, dirs, files, committed, config,
                   encoded, cur, archive, reporter, i, not_downloaded, res>>

\* _cli: --skip-download; the snapshot and the loaded copy are dropped
SkipDownload ==
    /\ pc = "ingested"
    /\ config.skip_download
    /\ pc' = "commit"
    /\ res' = NoRes
    /\ hist' = [hist EXCEPT !.pre = NoArchive,
                            !.steps = Append(@, "skip_download")]
    /\ UNCHANGED <<stamp, viewer, run, yark_json, yark_bak, dirs, files, committed, config,
                   encoded, cur, archive, reporter, i, not_downloaded>>

\* Archive.download: one pass of the outer loop up to the launch
DlAttempt ==
    /\ pc \in {"ingested", "retry"}
    /\ ~config.skip_download
    /\ res' = NoRes
    /\ LET list == Curate(archive, config, files)
       IN  /\ not_downloaded' = list
           /\ pc' = IF list = <<>> THEN "commit" ELSE "launch"
           /\ hist' = [IF pc = "ingested"
                       THEN [hist EXCEPT !.pre = NoArchive, !.downloading = TRUE,
                                         !.curated = list]
                       ELSE hist
                         EXCEPT !.batch = Len(list),
                                !.steps = IF list = <<>>
                                          THEN Append(@, "download") ELSE @]
    /\ UNCHANGED <<stamp, viewer, run, yark_json, yark_bak, dirs, files, committed, config,
                   encoded, cur, archive, reporter, i>>

IdsOf(a, list) == {Deref(a, list[k]).id : k \in 1..Len(list)}

\* _dl_launch: the bulk request downloads every item of the list
DlLaunchOk ==
    /\ pc = "launch"
    /\ files' = files \cup IdsOf(archive, not_downloaded)
    /\ pc' = "commit"
    /\ not_downloaded' = <<>>
    /\ hist' = [hist EXCEPT !.got = @ \cup (IdsOf(archive, not_downloaded) \ files),
                            !.requests = @ + 1,
                            !.converter = TRUE,
                            !.steps = Append(@, "download")]
    /\ UNCHANGED <<stamp, viewer, run, yark_json, yark_bak, dirs, committed, config, encoded,
                   cur, archive, reporter, i, res>>

\* _dl_launch: the bulk request raises DownloadError(msg) at the k-th item,
\* after downloading the items before it; then _dl_exception_handle, and
\* for what it raises the except branch of Archive.download with
\* _err_dl("videos", exception, i != 4)
DlLaunchRaises(k, msg) ==
    /\ pc = "launch"
    /\ k \in 1..Len(not_downloaded)
    /\ LET before == IdsOf(archive, SubSeq(not_downloaded, 1, k - 1))
           fs == files \cup before
           ind == SkipIndex(archive, not_downloaded, fs)
           ref == not_downloaded[ind]
           video == Deref(archive, ref)
           classified == IsPrivateOrRemoved(msg) \/ IsMismatch(msg)
           h == [hist EXCEPT
                   !.got = @ \cup (before \ files),
                   !.requests = @ + 1,
                   !.failed = IF msg \cap {PRIVATE, REMOVED} # {}
                              THEN @ \cup {Deref(archive, not_downloaded[k]).id}
                              ELSE @,
                   !.clean = @ /\ msg \cap {PRIVATE, REMOVED} # {},
                   !.last = IF msg \cap {PRIVATE, REMOVED} # {} THEN "deleted"
                            ELSE IF MISMATCH \in msg THEN "mismatch"
                            ELSE "other"]
       IN  /\ files' = fs
           /\ IF classified /\ ind # 0
              THEN /\ not_downloaded' = SkipRest(not_downloaded, ind)
                   /\ hist' = [h EXCEPT !.skipped_now = @ \cup {ref}]
                   /\ IF IsPrivateOrRemoved(msg) /\ NewOccurrence(video)
                      THEN /\ reporter' = [reporter EXCEPT
                                             !.deleted = Append(@, <<ref[1], video.id>>)]
                           /\ archive' = [archive EXCEPT
                                            ![ref[1]][ref[2]].deleted = ElementUpdate(@, TRUE)]
                      ELSE UNCHANGED <<reporter, archive>>
                   /\ UNCHANGED <<pc, i, config, encoded, cur, res>>
              ELSE IF Retrying(i, DownloadAttempts)
              THEN \* retrying: the next outer attempt
                   /\ i' = i + 1
                   /\ pc' = "retry"
                   /\ not_downloaded' = <<>>
                   /\ hist' = [h EXCEPT !.skipped_before = @ \cup h.skipped_now,
                                        !.skipped_now = {},
                                        !.requests = 0]
                   /\ UNCHANGED <<archive, reporter, config, encoded, cur, res>>
              ELSE \* the last attempt failed: sys.exit(1)
                   /\ Halt
                   /\ hist' = [h EXCEPT !.exhausted = "videos"]
    /\ UNCHANGED <<stamp, viewer, run, yark_json, yark_bak, dirs, committed>>

\* mutant: the text of yark.json is copied as it is
BackupTextBare(file) == file

\* _backup: two comment lines, then the text of yark.json
BackupText(file) ==
    [st |-> file.st, data |-> file.data, comments |-> BackupCommentLines]

\* `yark new`: Archive.new up to its call of commit
New(url) ==
    /\ pc \in {"idle", "done", "halted"}
    /\ run' = run + 1
    /\ UNCHANGED <<stamp, viewer>>
    /\ archive' = [version |-> ARCHIVE_COMPAT, url |-> url, videos |-> <<>>,
                   livestreams |-> <<>>, shorts |-> <<>>, comment_authors |-> {}]
    /\ reporter' = NoReporter
    /\ pc' = "commit"
    /\ hist' = Known(pc, hist)
    /\ UNCHANGED <<yark_json, yark_bak, dirs, files, committed, config, encoded,
                   cur, i, not_downloaded, res>>

\* mutant: commit without the call of _backup
CommitWithoutBackup ==
    /\ pc = "commit"
    /\ pc' = "commit_dirs"
    /\ hist' = [hist EXCEPT !.steps = Append(@, "commit")]
    /\ UNCHANGED <<stamp, viewer, run, yark_json, yark_bak, dirs, files, committed, config,
                   encoded, cur, archive, reporter, i, not_downloaded, res>>

\* Archive.commit, _backup: yark.bak is opened with "w+"
CommitBackupOpen ==
    /\ pc = "commit"
    /\ yark_json.st # "none"
    /\ yark_bak' = PartialFile
    /\ pc' = "commit_bak"
    /\ hist' = [hist EXCEPT !.steps = Append(@, "commit")]
    /\ UNCHANGED <<stamp, viewer, run, yark_json, dirs, files, committed, config, encoded, cur,
                   archive, reporter, i, not_downloaded, res>>

\* _backup: the comment lines and the text of yark.json are written
CommitBackupWrite ==
    /\ pc = "commit_bak"
    /\ yark_bak' = BackupText(yark_json)
    /\ pc' = "commit_dirs"
    /\ UNCHANGED <<stamp, viewer, run, yark_json, dirs, files, committed, config, encoded, cur,
                   archive, reporter, i, not_downloaded, res, hist>>

\* Archive.commit: the directories are made and yark.json is opened with "w+"
CommitOpen ==
    /\ pc \in {"commit_dirs", "commit"}
    /\ pc = "commit" => yark_json.st = "none"
    /\ dirs' = [dirs EXCEPT !.images = TRUE]
    /\ yark_json' = PartialFile
    /\ pc' = "commit_json"
    /\ hist' = [hist EXCEPT !.loaded_ok = FALSE,
                            !.steps = IF pc = "commit"
                                      THEN Append(@, "commit") ELSE @]
    /\ UNCHANGED <<stamp, viewer, run, yark_bak, files, committed, config, encoded, cur,
                   archive, reporter, i, not_downloaded, res>>

\* Archive.commit: json.dump(self._to_dict(), file); the run ends
CommitWrite ==
    /\ pc = "commit_json"
    /\ yark_json' = FullFile(ArchiveToDict(archive))
    /\ committed' = ArchiveToDict(archive)
    /\ pc' = "done"
    /\ config' = DefaultConfig
    /\ archive' = NoArchive
    /\ reporter' = NoReporter
    /\ i' = 0
    /\ not_downloaded' = <<>>
    /\ res' = NoRes
    /\ hist' = Carry(hist)
    /\ UNCHANGED <<stamp, viewer, run, yark_bak, dirs, files, encoded, cur>>

\* the process is killed, at any point of a run
Crash ==
    /\ pc \notin {"idle", "done", "halted"}
    /\ Halt
    /\ hist' = Known("halted", hist)
    /\ UNCHANGED <<stamp, viewer, run, yark_json, yark_bak, dirs, files, committed>>

(* --------------------------- specifications --------------------------- *)
\* the steps of Archive.commit
Commit ==
    \/ CommitBackupOpen
    \/ CommitBackupWrite
    \/ CommitOpen
    \/ CommitWrite

\* refresh runs that skip metadata and download, on stores of every version:
\* loading with migration, and committing
LoadArgs ==
    {[DefaultConfig EXCEPT !.skip_metadata = TRUE, !.skip_download = TRUE]}

InitLoad == \E store \in StoresOfAllVersions : InitWith(store, {})

NextLoad ==
    \/ \E args \in LoadArgs : run < MaxRuns /\ Refresh(args)
    \/ MigrateStep
    \/ SkipMetadata
    \/ SkipDownload
    \/ Commit
    \/ Crash

SpecLoad == InitLoad /\ [][NextLoad]_vars

\* `yark new` and refresh runs on a path with or without a store
InitCommit ==
    \/ InitLoad
    \/ /\ pc = "idle"
       /\ run = 0
       /\ yark_json = NoFile
       /\ committed = NoData
       /\ dirs = [thumbnails |-> FALSE, images |-> FALSE]
       /\ yark_bak = NoFile
       /\ files = {}
       /\ config = DefaultConfig
       /\ encoded = NoData
       /\ cur = -1
       /\ archive = NoArchive
       /\ reporter = NoReporter
       /\ i = 0
       /\ not_downloaded = <<>>
       /\ res = NoRes
       /\ hist = NoHist
       /\ viewer = NoViewer
       /\ stamp = NoStamp

NextCommit ==
    \/ \E url \in {ChannelUrl(ChannelId)} : run < MaxRuns /\ New(url)
    \/ \E args \in LoadArgs : run < MaxRuns /\ Refresh(args)
    \/ MigrateStep
    \/ SkipMetadata
    \/ SkipDownload
    \/ Commit
    \/ Crash

SpecCommit == InitCommit /\ [][NextCommit]_vars

\* refresh runs with --skip-download: ingestion of snapshots that may list
\* an id more than once
IngestArgs == {[DefaultConfig EXCEPT !.skip_download = TRUE]}

InitIngest ==
    \E vids \in {<<>>, <<1>>}, lives \in {<<>>, <<2>>} :
        InitWith(StoredArchive(ARCHIVE_COMPAT, vids, lives, {}), {})

NextIngest ==
    \/ \E args \in IngestArgs : run < MaxRuns /\ Refresh(args)
    \/ MetadataFails
    \/ \E snapshot \in SnapshotsOf(MaxEntries) : Metadata(snapshot)
    \/ SkipDownload
    \/ Commit

SpecIngest == InitIngest /\ [][NextIngest]_vars

\* refresh runs with --skip-download: successive ingestion passes
NextPasses ==
    \/ \E args \in IngestArgs : run < MaxPasses /\ Refresh(args)
    \/ MetadataFails
    \/ \E snapshot \in SnapshotsOf(MaxPassEntries) : Metadata(snapshot)
    \/ SkipDownload
    \/ Commit

SpecPasses == InitIngest /\ [][NextPasses]_vars

\* refresh runs with --skip-metadata: the downloads
DownloadArgs == {a \in RefreshArgs : a.skip_metadata /\ ~a.skip_download}

\* a store whose videos bucket holds a batch of MaxBatch items
StoreOfBatch ==
    StoredArchive(ARCHIVE_COMPAT, BucketOf(1..MaxBatch), <<>>, {})

InitDownload ==
    \/ \E store \in StoresOfItems, fs \in SUBSET Ids : InitWith(store, fs)
    \/ InitWith(StoreOfBatch, {})

NextDownload ==
    \/ \E args \in DownloadArgs : run < MaxDownloads /\ Refresh(args)
    \/ SkipMetadata
    \/ DlAttempt
    \/ DlLaunchOk
    \/ \E k \in DOMAIN not_downloaded, msg \in Messages : DlLaunchRaises(k, msg)
    \/ Commit

SpecDownload == InitDownload /\ [][NextDownload]_vars

\* whole refresh runs: load, ingestion or its skip, download or its skip,
\* commit; the arguments cover both skips and a maximum for one category
RefreshProfiles ==
    {a \in RefreshArgs :
        /\ a.max_livestreams = None /\ a.max_shorts = None
        /\ a.max_videos \in {None, Some(1)}}

\* stores of the current version, of a version to migrate and of an
\* unknown version
InitRefresh ==
    \/ InitIngest
    \/ \E version \in {ARCHIVE_COMPAT - 1, ARCHIVE_COMPAT + 1} :
          InitWith(StoredArchive(version, <<1>>, <<2>>, {}), {})

NextRefresh ==
    \/ \E args \in RefreshProfiles : run < MaxRefreshes /\ Refresh(args)
    \/ MigrateStep
    \/ MetadataFails
    \/ \E snapshot \in SnapshotsOf(MaxPassEntries) : Metadata(snapshot)
    \/ SkipMetadata
    \/ SkipDownload
    \/ DlAttempt
    \/ DlLaunchOk
    \/ \E k \in DOMAIN not_downloaded, msg \in Messages : DlLaunchRaises(k, msg)
    \/ Commit

SpecRefresh == InitRefresh /\ [][NextRefresh]_vars

\* the ids of the items of a bucket
BucketIds(a, b) == {a[b][k].id : k \in DOMAIN a[b]}

\* Archive._curate on its own, for buckets of every length up to MaxBucket,
\* maxima unset, negative, zero and positive, and several download patterns
CurateMaxima == {None} \cup {Some(n) : n \in (-1)..MaxCurateMaximum}
SideMaxima == {None, Some(0), Some(1)}

\* a bucket of n items, newest first, with ids above base
BucketFrom(base, n) ==
    [k \in 1..n |-> VideoFromDict(StoredItem(ARCHIVE_COMPAT, base + n - k + 1))]

ArchiveOfLengths(nv, nl, ns) ==
    [version |-> ARCHIVE_COMPAT, url |-> ChannelUrl(ChannelId),
     videos |-> BucketFrom(0, nv),
     livestreams |-> BucketFrom(MaxBucket + 1, nl),
     shorts |-> BucketFrom(2 * (MaxBucket + 1), ns),
     comment_authors |-> {}]

\* which of the ids have a file: none, all, every second, the first, the last
DownloadPatterns(ids) ==
    {{}, ids, {x \in ids : x % 2 = 0},
     {x \in ids : \A y \in ids : x <= y}, {x \in ids : \A y \in ids : x >= y}}

InitCurate ==
    \E nv \in 0..MaxBucket, nl \in 0..MaxSideBucket, ns \in 0..MaxSideBucket,
       mv \in CurateMaxima, ml \in SideMaxima, ms \in SideMaxima :
       \E fs \in DownloadPatterns(
                   UNION {BucketIds(ArchiveOfLengths(nv, nl, ns), b) : b \in BucketNames}) :
          /\ pc = "curate"
          /\ archive = ArchiveOfLengths(nv, nl, ns)
          /\ config = [DefaultConfig EXCEPT !.max_videos = mv,
                                            !.max_livestreams = ml,
                                            !.max_shorts = ms]
          /\ files = fs
          /\ run = 0
          /\ yark_json = FullFile(ArchiveToDict(ArchiveOfLengths(nv, nl, ns)))
          /\ committed = ArchiveToDict(ArchiveOfLengths(nv, nl, ns))
          /\ yark_bak = NoFile
          /\ dirs = [thumbnails |-> FALSE, images |-> TRUE]
          /\ encoded = NoData
          /\ cur = -1
          /\ reporter = NoReporter
          /\ i = 0
          /\ not_downloaded = <<>>
          /\ res = NoRes
          /\ hist = NoHist
          /\ viewer = NoViewer
          /\ stamp = NoStamp

\* one call of Archive._curate
CurateCall ==
    /\ pc = "curate"
    /\ not_downloaded' = Curate(archive, config, files)
    /\ pc' = "curated"
    /\ UNCHANGED <<stamp, viewer, run, yark_json, yark_bak, dirs, files, config, encoded, cur,
                   archive, reporter, i, res, committed, hist>>

NextCurate == CurateCall

SpecCurate == InitCurate /\ [][NextCurate]_vars

\* Archive._parse_metadata on its own, twice with the same entries, for
\* every videos bucket the program can have left: no id twice, newest
\* first, items of one upload time in any order
SortIds == 1..MaxSortId

SortedBuckets ==
    {ids \in SeqsUpTo(SortIds, MaxSortId) :
        /\ \A j, k \in DOMAIN ids : j < k => ids[j] # ids[k]
        /\ \A j, k \in DOMAIN ids : j < k => Uploaded(ids[j]) >= Uploaded(ids[k])}

SortEntries == [id : SortIds, title : {TitleA}, formats : {"some"}]

ArchiveOfIds(ids) ==
    [version |-> ARCHIVE_COMPAT, url |-> ChannelUrl(ChannelId),
     videos |-> [k \in DOMAIN ids |-> VideoFromDict(StoredItem(ARCHIVE_COMPAT, ids[k]))],
     livestreams |-> <<>>, shorts |-> <<>>, comment_authors |-> {}]

InitSort ==
    \E ids \in SortedBuckets, es \in SeqsUpTo(SortEntries, MaxSortEntries) :
        /\ pc = "parse"
        /\ archive = ArchiveOfIds(ids)
        /\ res = [flat |-> TRUE, entries |-> es]
        /\ config = DefaultConfig
        /\ files = {}
        /\ run = 0
        /\ yark_json = FullFile(ArchiveToDict(ArchiveOfIds(ids)))
        /\ committed = ArchiveToDict(ArchiveOfIds(ids))
        /\ yark_bak = NoFile
        /\ dirs = [thumbnails |-> FALSE, images |-> TRUE]
        /\ encoded = NoData
        /\ cur = -1
        /\ reporter = NoReporter
        /\ i = 0
        /\ not_downloaded = <<>>
        /\ hist = NoHist
        /\ viewer = NoViewer
        /\ stamp = NoStamp

\* one call of Archive._parse_metadata for the videos bucket
ParseCall ==
    /\ pc \in {"parse", "parsed"}
    /\ LET r == ParseMetadata(res.entries, archive.videos)
       IN  /\ archive' = [archive EXCEPT !.videos = r.videos]
           /\ reporter' = [reporter EXCEPT !.added = @ \o r.added]
    /\ pc' = IF pc = "parse" THEN "parsed" ELSE "reparsed"
    /\ hist' = [hist EXCEPT !.pre = archive]
    /\ UNCHANGED <<stamp, viewer, run, yark_json, yark_bak, dirs, files, config, encoded, cur,
                   i, not_downloaded, res, committed>>

NextSort == ParseCall

SpecSort == InitSort /\ [][NextSort]_vars

\* the video route of the viewer: Archive.load of a store of the current
\* version, then Archive.search
ViewLoad ==
    /\ pc = "idle"
    /\ yark_json.st = "full"
    /\ yark_json.data.version = ARCHIVE_COMPAT
    /\ archive' = ArchiveFromDict(yark_json.data)
    /\ pc' = "view"
    /\ UNCHANGED <<stamp, viewer, run, yark_json, yark_bak, dirs, files, config, encoded, cur,
                   reporter, i, not_downloaded, res, committed, hist>>

ViewSearch(id) ==
    /\ pc = "view"
    /\ pc' = "searched"
    /\ hist' = [hist EXCEPT !.searched = id, !.found = Search(archive, id)]
    /\ UNCHANGED <<stamp, viewer, run, yark_json, yark_bak, dirs, files, config, encoded, cur,
                   archive, reporter, i, not_downloaded, res, committed>>

InitSearch == \E store \in StoresOfItems : InitWith(store, {})

NextSearch ==
    \/ ViewLoad
    \/ \E id \in Ids : ViewSearch(id)

SpecSearch == InitSearch /\ [][NextSearch]_vars

\* the video route of the viewer handling POST requests, one thread a
\* request: request r adds the note r to the item of an id
ReqFrame ==
    UNCHANGED <<stamp, pc, run, files, config, encoded, cur, archive, reporter, i,
                not_downloaded, res, hist>>

\* Archive.load and archive.search; json.load raises on a file that is
\* being written, search on an id the videos bucket lacks
ReqLoad(r, id) ==
    /\ viewer[r].pc = "idle"
    /\ IF yark_json.st = "full" /\ yark_json.data.version = ARCHIVE_COMPAT
          /\ Search(ArchiveFromDict(yark_json.data), id) # <<>>
       THEN viewer' = [viewer EXCEPT ![r].pc = "found", ![r].id = id,
                                     ![r].archive = ArchiveFromDict(yark_json.data)]
       ELSE viewer' = [viewer EXCEPT ![r].pc = "failed", ![r].id = id]
    /\ UNCHANGED <<yark_json, yark_bak, dirs, committed>>
    /\ ReqFrame

\* Note.new and video.notes.append(note)
ReqPost(r) ==
    /\ viewer[r].pc = "found"
    /\ LET k == IndexOfId(viewer[r].archive.videos, viewer[r].id)
       IN  viewer' = [viewer EXCEPT
                        ![r].pc = "commit",
                        ![r].archive.videos[k].notes = @ \cup {r}]
    /\ UNCHANGED <<yark_json, yark_bak, dirs, committed>>
    /\ ReqFrame

\* Archive.commit, _backup: yark.json is read, yark.bak opened with "w+"
ReqBackupOpen(r) ==
    /\ viewer[r].pc = "commit"
    /\ IF yark_json.st = "none"
       THEN /\ viewer' = [viewer EXCEPT ![r].pc = "dirs"]
            /\ UNCHANGED yark_bak
       ELSE /\ viewer' = [viewer EXCEPT ![r].pc = "bak", ![r].save = yark_json]
            /\ yark_bak' = PartialFile
    /\ UNCHANGED <<yark_json, dirs, committed>>
    /\ ReqFrame

\* _backup: the comment lines and the text read are written
ReqBackupWrite(r) ==
    /\ viewer[r].pc = "bak"
    /\ yark_bak' = BackupText(viewer[r].save)
    /\ viewer' = [viewer EXCEPT ![r].pc = "dirs", ![r].save = NoFile]
    /\ UNCHANGED <<yark_json, dirs, committed>>
    /\ ReqFrame

\* Archive.commit: the directories are made and yark.json is opened with "w+"
ReqOpen(r) ==
    /\ viewer[r].pc = "dirs"
    /\ dirs' = [dirs EXCEPT !.images = TRUE]
    /\ yark_json' = PartialFile
    /\ viewer' = [viewer EXCEPT ![r].pc = "json"]
    /\ UNCHANGED <<yark_bak, committed>>
    /\ ReqFrame

\* Archive.commit: json.dump(self._to_dict(), file); the request returns 200
ReqWrite(r) ==
    /\ viewer[r].pc = "json"
    /\ yark_json' = FullFile(ArchiveToDict(viewer[r].archive))
    /\ committed' = ArchiveToDict(viewer[r].archive)
    /\ viewer' = [viewer EXCEPT ![r].pc = "done", ![r].archive = NoArchive]
    /\ UNCHANGED <<yark_bak, dirs>>
    /\ ReqFrame

InitViewer ==
    \E store \in StoresOfItems : store.videos # <<>> /\ InitWith(store, {})

NextViewer ==
    \/ \E r \in Requests, id \in Ids : ReqLoad(r, id)
    \/ \E r \in Requests : ReqPost(r)
    \/ \E r \in Requests : ReqBackupOpen(r)
    \/ \E r \in Requests : ReqBackupWrite(r)
    \/ \E r \in Requests : ReqOpen(r)
    \/ \E r \in Requests : ReqWrite(r)

SpecViewer == InitViewer /\ [][NextViewer]_vars

\* one refresh run of a store, with --skip-download and no maximum or with
\* --videos=0 --livestreams=0 --shorts=0
AllZero(cfg) ==
    cfg.max_videos = Some(0) /\ cfg.max_livestreams = Some(0)
    /\ cfg.max_shorts = Some(0)
SkipOrZeroArgs ==
    {a \in RefreshArgs :
        \/ a.skip_download /\ a.max_videos = None /\ a.max_livestreams = None
           /\ a.max_shorts = None
        \/ ~a.skip_download /\ AllZero(a)}

NextSkip ==
    \/ \E args \in SkipOrZeroArgs : pc = "idle" /\ Refresh(args)
    \/ MetadataFails
    \/ \E snapshot \in SnapshotsOf(MaxPassEntries) : Metadata(snapshot)
    \/ SkipMetadata
    \/ SkipDownload
    \/ DlAttempt
    \/ Commit

SpecSkip == InitIngest /\ [][NextSkip]_vars

(* --------------------------- note timestamps -------------------------- *)
\* A string is modelled by its parts between the colons, each part the
\* sequence of its characters; the characters of a number are its decimal
\* digits 0..9.  The empty string is one empty part.
EmptyString == <<<<>>>>

\* str(n) for an int n >= 0
RECURSIVE Str(_)
Str(n) == IF n < 10 THEN <<n>> ELSE Append(Str(n \div 10), n % 10)

\* text.rjust(2, "0")
Rjust(text) == IF Len(text) < 2 THEN <<0>> \o text ELSE text

\* int(text): raises (None) for a text that is no decimal number
RECURSIVE IntOf(_)
IntOf(text) ==
    IF Len(text) = 1 THEN text[1]
    ELSE 10 * IntOf(SubSeq(text, 1, Len(text) - 1)) + text[Len(text)]

IsNumber(text) == text # <<>> /\ \A k \in DOMAIN text : text[k] \in 0..9

(* A float is modelled as binary64 has it: [m, x] stands for m * 2^x, with
   m a natural number of at most 53 bits.  m does not fit the integers of
   the model checker, so it is a sequence of limbs of LimbBits bits each,
   lowest first; <<>> is zero.  The operations are those the timestamps
   need: a small int divided by a small int, a float times a small int,
   and the integer and fractional part of a float that is not negative. *)
SignificandBits == 53
LimbBits == 13

RECURSIVE Pow2(_)
Pow2(k) == IF k = 0 THEN 1 ELSE 2 * Pow2(k - 1)

Limb == Pow2(LimbBits)

RECURSIVE NatOf(_)
NatOf(b) == IF b = <<>> THEN 0 ELSE b[1] + Limb * NatOf(Tail(b))

\* b * c + carry, for small c and carry
RECURSIVE MulSmall(_, _, _)
MulSmall(b, c, carry) ==
    IF b = <<>> THEN (IF carry = 0 THEN <<>> ELSE <<carry>>)
    ELSE LET v == b[1] * c + carry
         IN  <<v % Limb>> \o MulSmall(Tail(b), c, v \div Limb)

\* quotient (as many limbs as b) and remainder of b by a small c
RECURSIVE DivRem(_, _)
DivRem(b, c) ==
    IF b = <<>> THEN [q |-> <<>>, r |-> 0]
    ELSE LET hi == DivRem(Tail(b), c)
             v == Limb * hi.r + b[1]
         IN  [q |-> <<v \div c>> \o hi.q, r |-> v % c]

\* b * 2^k and b \div 2^k, b % 2^k
ShiftLeft(b, k) ==
    [j \in 1..(k \div LimbBits) |-> 0] \o MulSmall(b, Pow2(k % LimbBits), 0)
ShiftRight(b, k) ==
    DivRem(SubSeq(b, k \div LimbBits + 1, Len(b)), Pow2(k % LimbBits)).q
LowBits(b, k) ==
    IF k \div LimbBits >= Len(b) THEN b
    ELSE Append(SubSeq(b, 1, k \div LimbBits),
                b[k \div LimbBits + 1] % Pow2(k % LimbBits))

\* the binary exponent of the quotient x / unit, for x >= unit
RECURSIVE Exponent(_, _)
Exponent(x, unit) == IF 2 * unit > x THEN 0 ELSE 1 + Exponent(x, 2 * unit)

\* the number of bits of b
BitLen(b) ==
    LET used == {j \in DOMAIN b : b[j] # 0}
        top == CHOOSE j \in used : \A o \in used : o <= j
    IN  IF used = {} THEN 0
        ELSE (top - 1) * LimbBits + Exponent(b[top], 1) + 1

\* round to nearest, ties to even: [m, x] with m * 2^x the float nearest
\* to b, for b of fewer than SignificandBits + LimbBits bits
Round(b) ==
    LET drop == BitLen(b) - SignificandBits
        d == DivRem(b, Pow2(drop))
        half == Pow2(drop - 1)
        up == d.r > half \/ (d.r = half /\ d.q[1] % 2 = 1)
    IN  IF drop <= 0 THEN [m |-> b, x |-> 0]
        ELSE [m |-> IF up THEN MulSmall(d.q, 1, 1) ELSE d.q, x |-> drop]

\* timestamp / unit of two ints, timestamp >= unit
FloatDiv(timestamp, unit) ==
    LET e == Exponent(timestamp, unit)
        d == DivRem(ShiftLeft(<<timestamp>>, SignificandBits - 1 - e), unit)
        up == 2 * d.r > unit \/ (2 * d.r = unit /\ d.q[1] % 2 = 1)
    IN  [m |-> IF up THEN MulSmall(d.q, 1, 1) ELSE d.q,
         x |-> e - (SignificandBits - 1)]

\* f * c for a small int c
FloatMul(f, c) ==
    LET r == Round(MulSmall(f.m, c, 0))
    IN  [m |-> r.m, x |-> f.x + r.x]

\* int(f), for f.x <= 0
IntPart(f) == NatOf(ShiftRight(f.m, -f.x))

\* f - int(f), which is exact
FracPart(f) == [m |-> LowBits(f.m, -f.x), x |-> f.x]

\* _encode_timestamp
EncodeTimestamp(timestamp) ==
    LET has_hours == timestamp >= 60 * 60
        hours == FloatDiv(timestamp, 60 * 60)
        after_hours ==
            IF has_hours
            THEN IntPart(FloatMul(FloatMul(FracPart(hours), 60), 60))
            ELSE timestamp
        has_minutes == after_hours >= 60
        minutes == FloatDiv(after_hours, 60)
        secs == IF has_minutes THEN IntPart(FloatMul(FracPart(minutes), 60))
                ELSE after_hours
        parts == (IF has_hours THEN <<Rjust(Str(IntPart(hours)))>> ELSE <<>>)
                 \o (IF has_minutes THEN <<Rjust(Str(IntPart(minutes)))>>
                     ELSE <<>>)
    IN  (IF parts = <<>> THEN <<<<0, 0>>>> ELSE parts) \o <<Rjust(Str(secs))>>

\* _decode_timestamp: Some(secs), or None for a TimestampException
DecodeTimestamp(input) ==
    LET splitted == [k \in 1..Len(input) |-> input[Len(input) + 1 - k]]
    IN  IF input = EmptyString THEN None
        ELSE IF Len(splitted) > 3 THEN None
        ELSE IF \E k \in DOMAIN splitted : ~IsNumber(splitted[k]) THEN None
        ELSE Some(IntOf(splitted[1])
                  + (IF Len(splitted) > 1 THEN IntOf(splitted[2]) * 60 ELSE 0)
                  + (IF Len(splitted) > 2 THEN IntOf(splitted[3]) * 60 * 60
                     ELSE 0))

StampFrame ==
    UNCHANGED <<pc, run, yark_json, yark_bak, dirs, files, config, encoded,
                cur, archive, reporter, i, not_downloaded, res, committed,
                viewer, hist>>

\* the template filter "timestamp" shows the timestamp of a note
StampEncode(secs) ==
    /\ stamp.pc = "idle"
    /\ stamp' = [stamp EXCEPT !.pc = "shown", !.secs = secs,
                              !.text = EncodeTimestamp(secs)]
    /\ StampFrame

\* a POST or PATCH request sends the text shown back
StampDecode ==
    /\ stamp.pc = "shown"
    /\ stamp' = [stamp EXCEPT !.pc = "read",
                              !.back = DecodeTimestamp(stamp.text)]
    /\ StampFrame

InitTimestamp ==
    \E store \in StoresOfItems :
        /\ store.videos = <<>> /\ store.livestreams = <<>> /\ store.shorts = <<>>
        /\ InitWith(store, {})

NextTimestamp ==
    \/ \E secs \in 0..MaxSeconds : StampEncode(secs)
    \/ StampDecode

SpecTimestamp == InitTimestamp /\ [][NextTimestamp]_vars

(* ----------------------------- properties ----------------------------- *)
AllItems(a) == Range(a.videos) \cup Range(a.livestreams) \cup Range(a.shorts)

\* C3: migration is strictly forward and sequential.  The versions left by
\* the transitions applied so far are loaded_from, loaded_from + 1, ... in
\* increasing order, each once, and the version of the dict grows by one
\* per transition; a load of a store of version 1, 2 or 3 that completes has
\* applied every transition up to 3 -> 4 and holds an archive of version
\* ARCHIVE_COMPAT in which the fields introduced after the store's version
\* have their defaults; a load of a store of version 4 applies none.
MigrationForwardSequential ==
    /\ \A k \in 1..Len(hist.migrated) :
          hist.migrated[k] = hist.loaded_from + k - 1
    /\ pc = "migrate" =>
          /\ cur = hist.loaded_from + Len(hist.migrated)
          /\ encoded.version = cur
          /\ hist.loaded_from \in KnownVersions => cur <= ARCHIVE_COMPAT
    /\ (pc = "loaded" /\ hist.loaded_from = ARCHIVE_COMPAT) => hist.migrated = <<>>
    /\ (pc = "loaded" /\ hist.loaded_from \in KnownVersions) =>
          /\ hist.migrated = [k \in 1..(ARCHIVE_COMPAT - hist.loaded_from) |->
                                 hist.loaded_from + k - 1]
          /\ archive.version = ARCHIVE_COMPAT
          /\ [k \in 1..Len(archive.videos) |-> archive.videos[k].id]
               = [k \in 1..Len(yark_json.data.videos) |-> yark_json.data.videos[k].id]
          /\ hist.loaded_from < 2 =>
                /\ archive.url = ChannelUrl(yark_json.data.id)
                /\ archive.livestreams = <<>>
                /\ archive.shorts = <<>>
          /\ hist.loaded_from < 3 =>
                \A video \in AllItems(archive) : video.deleted = <<FALSE>>
          /\ hist.loaded_from < 4 =>
                /\ \A video \in AllItems(archive) : video.comments = {}
                /\ archive.comment_authors = {}

\* a store of version 1 with an item has been loaded
MigratedFromOne ==
    /\ pc = "loaded"
    /\ hist.loaded_from = 1
    /\ hist.migrated = <<1, 2, 3>>
    /\ Len(archive.videos) = 1

\* C4: whenever Archive.load runs a migration, yark.bak already holds a
\* copy of the store being migrated when the first transition is applied.
BackupBeforeMigration ==
    (pc = "migrate" /\ hist.migrated # <<>>) =>
        (yark_bak.st = "full" /\ yark_bak.data = yark_json.data)

\* C5: commit writes the backup before it opens yark.json for overwriting:
\* at every moment, a crash included, yark.json or yark.bak holds the
\* complete store of the last completed commit, and whenever yark.json is
\* partly written yark.bak holds it.
CommitCrashSafe ==
    /\ \/ yark_json.st = "full" /\ yark_json.data = committed
       \/ yark_bak.st = "full" /\ yark_bak.data = committed
    /\ yark_json.st = "partial" =>
          (yark_bak.st = "full" /\ yark_bak.data = committed)

\* the process was killed in the middle of writing yark.json
CrashedWritingJson ==
    /\ pc = "halted"
    /\ yark_json.st = "partial"
    /\ yark_bak.st = "full"
    /\ yark_bak.data = committed

\* the item of bucket b of archive a with this id
HasItem(a, b, id) == \E k \in DOMAIN a[b] : a[b][k].id = id
ItemOf(a, b, id) == a[b][CHOOSE k \in DOMAIN a[b] : a[b][k].id = id]
\* how often x occurs in the sequence s
Count(s, x) == Cardinality({k \in DOMAIN s : s[k] = x})

\* items the pass before this one confirmed and this one's snapshot lacks
NewlyAbsent ==
    IF hist.passes = <<>> THEN {} ELSE Last(hist.passes).confirmed \ hist.listed
\* items confirmed two passes ago that the last and this snapshot lack
StillAbsent ==
    IF Len(hist.passes) < 2 THEN {}
    ELSE hist.passes[1].confirmed \ (hist.passes[2].listed \cup hist.listed)

\* C1: deletion is flagged exactly once.  After an ingestion pass, an item
\* the previous pass confirmed and this pass's snapshot lacks is flagged
\* deleted, with one entry more in its deleted history than when loaded, and
\* is on the deletion report once; an item confirmed two passes ago that
\* the previous snapshot and this one lack has the deleted history it was
\* loaded with and is not on the deletion report.
DeletionFlaggedOnce ==
    (pc = "ingested" /\ hist.ingested) =>
        /\ \A x \in NewlyAbsent :
              /\ HasItem(archive, x[1], x[2])
              /\ HasItem(hist.pre, x[1], x[2])
              /\ Current(ItemOf(archive, x[1], x[2]).deleted) = TRUE
              /\ Len(ItemOf(archive, x[1], x[2]).deleted)
                   = Len(ItemOf(hist.pre, x[1], x[2]).deleted) + 1
              /\ Count(reporter.deleted, x) = 1
        /\ \A x \in StillAbsent :
              /\ HasItem(archive, x[1], x[2])
              /\ HasItem(hist.pre, x[1], x[2])
              /\ Current(ItemOf(archive, x[1], x[2]).deleted) = TRUE
              /\ ItemOf(archive, x[1], x[2]).deleted
                   = ItemOf(hist.pre, x[1], x[2]).deleted
              /\ Count(reporter.deleted, x) = 0

\* the third pass has run on an item the first confirmed and the second and
\* third lacked, after a second pass that flagged it
ThirdPassStillAbsent ==
    /\ pc = "ingested"
    /\ hist.ingested
    /\ run = 3
    /\ StillAbsent # {}
    /\ \E x \in StillAbsent : Len(ItemOf(archive, x[1], x[2]).deleted) = 2

\* C6: idempotent re-ingestion.  Ingesting the snapshot this run has just
\* ingested once more changes nothing: no history gains an entry, no item
\* is added to a bucket, nothing more is reported added or deleted.
ReingestionChangesNothing ==
    (pc = "ingested" /\ hist.ingested) =>
        /\ IngestMetadata(archive, reporter, res).archive = archive
        /\ IngestMetadata(archive, reporter, res).reporter = reporter

\* C9: no item id appears in more than one of the three buckets.
NoIdInTwoBuckets ==
    \A b1 \in BucketNames, b2 \in BucketNames :
        b1 # b2 => BucketIds(archive, b1) \cap BucketIds(archive, b2) = {}

UniqueIds(videos) ==
    \A j \in DOMAIN videos, k \in DOMAIN videos :
        videos[j].id = videos[k].id => j = k

\* the entries with formats a snapshot lists for a bucket
FormattedEntries(snapshot, b) ==
    SelectSeq(SplitSnapshot(snapshot, b), LAMBDA e : e.formats = "some")

\* C10: every item id occurs at most once within its bucket, in memory and
\* in the store, also when a snapshot lists an id more than once in a
\* category: after the pass the bucket holds one item of that id, reported
\* added once if the bucket did not hold it before and not at all if it
\* did, and its title is the one of the last occurrence.
IdUniqueWithinBucket ==
    /\ \A b \in BucketNames : UniqueIds(archive[b])
    /\ yark_json.st = "full" => UniqueIds(yark_json.data.videos)
    /\ (yark_json.st = "full" /\ yark_json.data.version = ARCHIVE_COMPAT) =>
          UniqueIds(yark_json.data.livestreams) /\ UniqueIds(yark_json.data.shorts)
    /\ (pc = "ingested" /\ hist.ingested) =>
          \A b \in BucketNames :
             LET es == FormattedEntries(res, b)
             IN  \A k \in DOMAIN es :
                    /\ HasItem(archive, b, es[k].id)
                    /\ Count(reporter.added, <<b, es[k].id>>)
                         = IF HasItem(hist.pre, b, es[k].id) THEN 0 ELSE 1
                    /\ (\A j \in DOMAIN es : j > k => es[j].id # es[k].id)
                         => Current(ItemOf(archive, b, es[k].id).title) = es[k].title

\* a snapshot has listed twice, with two titles, an id its bucket did not hold
ListedTwiceCreatedOnce ==
    /\ pc = "ingested"
    /\ hist.ingested
    /\ \E b \in BucketNames :
          LET es == FormattedEntries(res, b)
          IN  /\ Len(es) = 2
              /\ es[1].id = es[2].id
              /\ es[1].title # es[2].title
              /\ ~HasItem(hist.pre, b, es[1].id)
              /\ ItemOf(archive, b, es[1].id).title = <<es[1].title, es[2].title>>

\* the list the download of this run ended with, under errors of the
\* private/removed kind only, raised at items that never got a file
OnlyPrivateFailures ==
    hist.downloading /\ hist.clean /\ hist.failed \cap files = {}

\* C2: retry convergence.  When the only errors of a download are
\* private/removed errors at items that are never downloaded, the download
\* stays in its first outer attempt, issues at most one bulk request more
\* than the curated list is long, and ends normally with every other
\* curated item downloaded and every failing item flagged deleted.
PrivateItemsConverge ==
    OnlyPrivateFailures =>
        /\ pc # "halted" /\ pc # "retry"
        /\ i = 0 /\ i < DownloadAttempts
        /\ pc = "launch" =>
              hist.requests + Len(not_downloaded) <= Len(hist.curated)
        /\ hist.requests <= Len(hist.curated) + 1
        /\ pc = "commit" =>
              /\ IdsOf(archive, hist.curated) \ hist.failed \subseteq files
              /\ \A k \in DOMAIN hist.curated :
                    Deref(archive, hist.curated[k]).id \in hist.failed =>
                        Current(Deref(archive, hist.curated[k]).deleted) = TRUE

\* a download of five items ended with the third private and the other
\* four downloaded
ThirdOfFivePrivate ==
    /\ pc = "commit"
    /\ OnlyPrivateFailures
    /\ Len(hist.curated) = 5
    /\ hist.failed = {Deref(archive, hist.curated[3]).id}
    /\ Cardinality(hist.got) = 4
    /\ hist.got \cap hist.failed = {}

\* the expected contribution of one bucket: the not-downloaded ones among
\* its first min(max(len - 1, 0), maximum) items, all when the maximum is unset
Contribution(b) ==
    LET len == Len(archive[b])
        maximum == CASE b = "videos" -> config.max_videos
                     [] b = "livestreams" -> config.max_livestreams
                     [] b = "shorts" -> config.max_shorts
        lesser == IF len - 1 < 0 THEN 0 ELSE len - 1
        first == IF ~maximum.some THEN len
                 ELSE IF maximum.val < lesser THEN maximum.val ELSE lesser
    IN  SelectSeq([k \in 1..len |-> <<b, k>>],
                  LAMBDA ref : ref[2] <= first /\ archive[b][ref[2]].id \notin files)

MaximumOf(b) ==
    CASE b = "videos" -> config.max_videos
      [] b = "livestreams" -> config.max_livestreams
      [] b = "shorts" -> config.max_shorts

SkippedNotRequeuedLater ==
    pc = "launch" => Range(not_downloaded) \cap hist.skipped_before = {}

\* C8 as the code has it: an item skipped during an outer attempt is in no
\* later bulk request of that attempt; the first request of a later attempt
\* is curated anew and holds every item skipped before that still has no file.
SkippedNotRequeuedInAttempt ==
    pc = "launch" =>
        /\ Range(not_downloaded) \cap hist.skipped_now = {}
        /\ hist.requests = 0 =>
              \A ref \in hist.skipped_before :
                  ~Downloaded(Deref(archive, ref), files) =>
                      ref \in Range(not_downloaded)

\* a later outer attempt is about to request an item skipped before, after
\* skipping another item in this attempt
RequeuedAfterRetry ==
    /\ pc = "launch"
    /\ i > 0
    /\ hist.skipped_before \cap Range(not_downloaded) # {}
    /\ hist.skipped_now # {}

\* C11: no fourth metadata attempt and no sixth download attempt is made,
\* and once the last attempt of either phase has failed the process has
\* halted without a commit: yark.json holds the last committed state and
\* the archive of this run is gone from memory
ExhaustedRetriesCommitNothing ==
    /\ pc = "loaded" => i < MetadataAttempts
    /\ pc \in {"launch", "retry"} => i < DownloadAttempts
    /\ hist.exhausted # "" =>
          /\ pc = "halted"
          /\ yark_json = FullFile(committed)
          /\ archive = NoArchive
          /\ reporter = NoReporter
          /\ not_downloaded = <<>>

\* witness of C11: the fifth download attempt failed after an ingestion
\* that changed the archive in memory
DownloadsExhaustedAfterIngestion ==
    /\ hist.exhausted = "videos"
    /\ hist.ingested
    /\ hist.confirmed # {}
    /\ committed.videos = <<>>

\* the calls a refresh with the present configuration makes, in order
RefreshOrder ==
    <<"load", IF config.skip_metadata THEN "skip_metadata" ELSE "metadata",
      IF config.skip_download THEN "skip_download" ELSE "download", "commit">>

\* C12: the calls of one refresh are made in the order load, metadata or
\* its skip, download or its skip, commit; commit is entered at most once,
\* only after the three others, every run that ended normally entered it,
\* and no run that halted before the end of a phase did
CommitOnceAfterPhases ==
    /\ Len(hist.steps) <= 4
    /\ pc \notin {"idle", "done", "halted"} =>
          hist.steps = SubSeq(RefreshOrder, 1, Len(hist.steps))
    /\ pc \in {"commit_bak", "commit_dirs", "commit_json"} => Len(hist.steps) = 4
    /\ pc \in {"migrate", "loaded", "ingested", "launch", "retry", "commit"} =>
          Len(hist.steps) < 4
    /\ pc = "done" =>
          /\ Len(hist.steps) = 4
          /\ hist.steps[1] = "load"
          /\ hist.steps[2] \in {"metadata", "skip_metadata"}
          /\ hist.steps[3] \in {"download", "skip_download"}
          /\ hist.steps[4] = "commit"
    /\ pc = "halted" => "commit" \notin Range(hist.steps)

\* witness of C12: a run ingested, downloaded and committed
CommittedAfterBothPhases ==
    /\ pc = "done"
    /\ hist.steps = <<"load", "metadata", "download", "commit">>
    /\ files # {}

\* C13: while yark.json holds a version that is neither ARCHIVE_COMPAT nor
\* one of 1, 2, 3, a load gets no further than the first call of
\* migrate_step, which exits: no transition is applied, yark.json, yark.bak
\* and the directories stay as they were, and no archive is decoded
UnknownVersionHalts ==
    (yark_json.st = "full" /\ yark_json.data.version \notin 1..ARCHIVE_COMPAT) =>
        /\ pc \in {"idle", "migrate", "halted"}
        /\ pc = "migrate" => encoded = yark_json.data /\ cur = yark_json.data.version
        /\ hist.migrated = <<>>
        /\ hist.migration_error # "rename"
        /\ yark_json.data = committed
        /\ yark_bak = NoFile
        /\ dirs = [thumbnails |-> yark_json.data.version < ARCHIVE_COMPAT,
                   images |-> yark_json.data.version >= ARCHIVE_COMPAT]
        /\ archive = NoArchive

\* witness of C13: a store of a version above ARCHIVE_COMPAT was loaded and
\* the process halted
HaltedOnNewerVersion ==
    /\ pc = "halted"
    /\ hist.migration_error = "unknown"
    /\ yark_json.data.version > ARCHIVE_COMPAT

\* C14: when the rename of the 3 -> 4 step fails the process halts with no
\* later step applied, yark.json still at the version it was loaded with,
\* and a whole backup of that store in yark.bak
RenameFailureLeavesBackup ==
    hist.migration_error = "rename" =>
        /\ pc = "halted"
        /\ Len(hist.migrated) > 0 => Last(hist.migrated) < 3
        /\ yark_json.st = "full"
        /\ yark_json.data.version = hist.loaded_from
        /\ yark_bak.st = "full"
        /\ yark_bak.data = yark_json.data

\* C15: from the return of Archive.load on, whenever yark.json is whole
\* its version is ARCHIVE_COMPAT
LoadedStoreCurrentOnDisk ==
    (archive # NoArchive /\ yark_json.st = "full") =>
        yark_json.data.version = ARCHIVE_COMPAT

\* the place of an id in a bucket, 0 if it is not there
PlaceOf(videos, id) ==
    IF \E k \in DOMAIN videos : videos[k].id = id
    THEN CHOOSE k \in DOMAIN videos : videos[k].id = id
    ELSE 0

BucketOrder(videos) == [k \in DOMAIN videos |-> videos[k].id]

\* C16: after a call of _parse_metadata the bucket is newest first, two
\* items of one upload time that were in the bucket before the call are in
\* the order they had, and a second call with the same entries leaves the
\* order of the bucket as it is
SortStable ==
    pc \in {"parsed", "reparsed"} =>
        /\ \A j, k \in DOMAIN archive.videos :
               j < k => archive.videos[j].uploaded >= archive.videos[k].uploaded
        /\ \A j, k \in DOMAIN hist.pre.videos :
               (j < k /\ hist.pre.videos[j].uploaded = hist.pre.videos[k].uploaded) =>
                   PlaceOf(archive.videos, hist.pre.videos[j].id)
                       < PlaceOf(archive.videos, hist.pre.videos[k].id)
        /\ pc = "reparsed" =>
               BucketOrder(archive.videos) = BucketOrder(hist.pre.videos)

\* witness of C16: a bucket that held 3 before 2, both of one upload time,
\* took a newer and an older item and was parsed again
TieKeptAmongNewItems ==
    /\ pc = "reparsed"
    /\ BucketOrder(archive.videos) = <<4, 3, 2, 1>>
    /\ BucketOrder(yark_json.data.videos) = <<3, 2>>

\* C17: Archive.search raises exactly when no bucket holds the id, and
\* otherwise returns an item of that id out of one of the three buckets
SearchFindsInAnyBucket ==
    pc = "searched" =>
        /\ hist.found = <<>> <=>
               \A b \in BucketNames : ~HasItem(archive, b, hist.searched)
        /\ hist.found # <<>> =>
               /\ hist.found[1].id = hist.searched
               /\ hist.found[1] \in AllItems(archive)

\* C18: no step of a run takes an item out of a bucket of the loaded
\* archive, a skip during the download included, and no commit writes a
\* store that lacks an item of the store it replaces
ItemsNeverRemoved ==
    [][/\ (archive # NoArchive /\ archive' # NoArchive) =>
            \A b \in BucketNames : \A k \in DOMAIN archive[b] :
                HasItem(archive', b, archive[b][k].id)
       /\ \A b \in BucketNames : \A k \in DOMAIN committed[b] :
            \E j \in DOMAIN committed'[b] : committed'[b][j].id = committed[b][k].id]_vars

\* witness of C18: the ingestion flagged an item deleted that the snapshot
\* did not list, the download skipped an item, and both buckets still hold
\* every item
SkippedAndFlaggedKept ==
    /\ pc = "launch"
    /\ hist.ingested
    /\ hist.skipped_now # {}
    /\ Len(not_downloaded) < Len(hist.curated)
    /\ Len(archive.videos) >= 2
    /\ \E k \in DOMAIN archive.videos :
          /\ Current(archive.videos[k].deleted) = TRUE
          /\ <<"videos", archive.videos[k].id>> \notin hist.listed

\* C19: after an ingestion, for every id a category lists only in entries
\* without formats: the bucket holds an item of that id only if it held one
\* before, that item is as it was loaded (its deleted flag apart, which
\* _report_deleted sets), and the id is not reported as added
FormatlessEntryProducesNothing ==
    (pc = "ingested" /\ hist.ingested) =>
        \A ref \in hist.listed \ hist.confirmed :
            /\ HasItem(archive, ref[1], ref[2]) <=> HasItem(hist.pre, ref[1], ref[2])
            /\ HasItem(hist.pre, ref[1], ref[2]) =>
                  [ItemOf(archive, ref[1], ref[2]) EXCEPT
                      !.deleted = ItemOf(hist.pre, ref[1], ref[2]).deleted]
                  = ItemOf(hist.pre, ref[1], ref[2])
            /\ ref \notin Range(reporter.added)

\* witness of C19: a flat snapshot listed an id of the bucket without the
\* "formats" field and an id the bucket lacks with an empty format list
ListedWithoutFormats ==
    /\ pc = "ingested"
    /\ hist.ingested
    /\ res.flat
    /\ \E j, k \in DOMAIN res.entries :
          /\ res.entries[j].formats = "absent"
          /\ res.entries[k].formats = "empty"
          /\ HasItem(hist.pre, "videos", res.entries[j].id)
          /\ ~HasItem(archive, "videos", res.entries[k].id)

ListedNeverFlagged ==
    (pc = "ingested" /\ hist.ingested) =>
        \A ref \in hist.listed :
            (/\ HasItem(hist.pre, ref[1], ref[2])
             /\ Current(ItemOf(hist.pre, ref[1], ref[2]).deleted) = FALSE) =>
                Current(ItemOf(archive, ref[1], ref[2]).deleted) = FALSE

\* C22: a commit that follows a load of a store of the current version
\* writes the author registry the store had
AuthorsKeptByLoadCommit ==
    [][(pc = "commit_json" /\ pc' = "done" /\ committed.version = ARCHIVE_COMPAT) =>
          committed'.comment_authors = committed.comment_authors]_vars

\* C23: once a run has loaded yark.json as it is now, no later load of it
\* exits in the migration
LoadRepeatable == hist.loaded_ok => hist.migration_error = ""

\* C24: a bulk request of _dl_launch is at most the (n + 1)-th of its outer
\* attempt, n being the items the attempt curated; a request that raises
\* and leaves the loop running has shortened the list and used no outer
\* attempt; any other request ends the loop, by success or by an error
\* handed to Archive.download
InnerLoopConverges ==
    [][pc = "launch" =>
          /\ hist.requests + Len(not_downloaded) <= hist.batch
          /\ hist'.requests # 0 => hist'.requests <= hist.batch + 1
          /\ pc' = "launch" =>
                /\ Len(not_downloaded') < Len(not_downloaded)
                /\ i' = i
          /\ pc' \in {"launch", "commit", "retry", "halted"}]_vars

\* witness of C24: a batch of five, every item skipped in turn, and the
\* sixth bulk request, of no item, still of the first outer attempt
BatchSkippedToNothing ==
    /\ pc = "launch"
    /\ hist.batch = MaxBatch
    /\ hist.requests = MaxBatch
    /\ not_downloaded = <<>>
    /\ i = 0

\* C25: the list of every bulk request holds only items without a file
RequestsOnlyNotDownloaded ==
    pc = "launch" =>
        \A k \in DOMAIN not_downloaded :
            ~Downloaded(Deref(archive, not_downloaded[k]), files)

\* C26: every entry a step of a run appends to the deleted list of the
\* reporter is of an item whose deleted flag that step turns from false to
\* true, and of no item the list already holds
DeletedReportedOnce ==
    [][Len(reporter'.deleted) > Len(reporter.deleted) =>
          \A k \in (Len(reporter.deleted) + 1)..Len(reporter'.deleted) :
              /\ HasItem(archive, reporter'.deleted[k][1], reporter'.deleted[k][2])
              /\ Current(ItemOf(archive, reporter'.deleted[k][1],
                                reporter'.deleted[k][2]).deleted) = FALSE
              /\ Current(ItemOf(archive', reporter'.deleted[k][1],
                                reporter'.deleted[k][2]).deleted) = TRUE
              /\ \A j \in 1..(k - 1) : reporter'.deleted[j] # reporter'.deleted[k]]_vars

\* witness of C26: the ingestion reported an item the snapshot did not
\* list, and the download skipped that item as private without a second
\* report
FlaggedThenSkippedAsPrivate ==
    /\ pc = "launch"
    /\ hist.ingested
    /\ Len(reporter.deleted) = 1
    /\ \E ref \in hist.skipped_now :
          /\ Deref(archive, ref).id \in hist.failed
          /\ reporter.deleted[1] = <<ref[1], Deref(archive, ref).id>>
          /\ reporter.deleted[1] \notin hist.listed

\* the place of a bucket in the order of the calls of _report_deleted
BucketRank(b) ==
    CASE b = "videos" -> 1 [] b = "livestreams" -> 2 [] b = "shorts" -> 3

\* C27: after an ingestion pass every item of every bucket that the pass
\* did not mark present is flagged deleted, also in a bucket the snapshot
\* has no entries for; every item that was not deleted before and is now
\* is reported once, and the reports are in the order videos,
\* livestreams, shorts of one detection per bucket
DetectionOncePerBucket ==
    (pc = "ingested" /\ hist.ingested) =>
        /\ \A b \in BucketNames : \A k \in DOMAIN archive[b] :
              <<b, archive[b][k].id>> \notin hist.confirmed =>
                  Current(archive[b][k].deleted) = TRUE
        /\ \A b \in BucketNames : \A k \in DOMAIN hist.pre[b] :
              (/\ Current(hist.pre[b][k].deleted) = FALSE
               /\ <<b, hist.pre[b][k].id>> \notin hist.confirmed) =>
                  Count(reporter.deleted, <<b, hist.pre[b][k].id>>) = 1
        /\ \A j, k \in DOMAIN reporter.deleted :
              j < k => /\ reporter.deleted[j] # reporter.deleted[k]
                       /\ BucketRank(reporter.deleted[j][1])
                             <= BucketRank(reporter.deleted[k][1])

\* witness of C27: a flat snapshot, which has entries for the videos bucket
\* only, and the item of the livestreams bucket flagged and reported
FlatSnapshotFlagsLivestream ==
    /\ pc = "ingested"
    /\ hist.ingested
    /\ res.flat
    /\ hist.confirmed # {}
    /\ Len(hist.pre.livestreams) = 1
    /\ Current(hist.pre.livestreams[1].deleted) = FALSE
    /\ Current(archive.livestreams[1].deleted) = TRUE
    /\ Count(reporter.deleted, <<"livestreams", archive.livestreams[1].id>>) = 1

\* C28: a DownloadError with the byte-count phrase and no private/removed
\* phrase, raised while an item of the list has no file, leaves the loop of
\* _dl_launch running with the list cut after the first item without a
\* file and with the archive and the reporter as they were; after an error
\* with a private/removed phrase, with or without the byte-count phrase,
\* the item skipped is flagged deleted
MismatchSkipsQuietly ==
    [][(pc = "launch" /\ hist'.requests = hist.requests + 1
          /\ hist'.last \in {"mismatch", "deleted"}
          /\ SkipIndex(archive, not_downloaded, files') # 0) =>
          /\ pc' = "launch"
          /\ i' = i
          /\ not_downloaded' =
                SubSeq(not_downloaded, SkipIndex(archive, not_downloaded, files') + 1,
                       Len(not_downloaded))
          /\ hist'.last = "mismatch" => archive' = archive /\ reporter' = reporter
          /\ hist'.last = "deleted" =>
                Current(Deref(archive', not_downloaded[
                    SkipIndex(archive, not_downloaded, files')]).deleted) = TRUE]_vars

\* witness of C28: the byte-count error was raised at the second item of a
\* batch, the first was downloaded, and the second went off the list with
\* its deleted flag still false and nothing reported
MismatchSkippedSecond ==
    /\ pc = "launch"
    /\ hist.last = "mismatch"
    /\ hist.batch = MaxBatch
    /\ Len(not_downloaded) = MaxBatch - 2
    /\ hist.requests = 1
    /\ Cardinality(files) = 1
    /\ reporter.deleted = <<>>
    /\ \A k \in DOMAIN archive.videos : Current(archive.videos[k].deleted) = FALSE

\* C29: when a commit opens yark.json for writing, yark.bak holds the two
\* comment lines and the text yark.json had, if there was a yark.json, and
\* otherwise is what it was before the commit; the commit then writes the
\* archive to yark.json and leaves yark.bak alone
BackupHoldsPrevious ==
    [][/\ (pc \in {"commit", "commit_dirs"} /\ pc' = "commit_json") =>
            /\ yark_bak' = yark_bak
            /\ IF yark_json.st # "none"
               THEN /\ pc = "commit_dirs"
                    /\ yark_bak = [st |-> yark_json.st, data |-> yark_json.data,
                                   comments |-> 2]
               ELSE pc = "commit"
       /\ (pc = "commit_json" /\ pc' = "done") =>
            /\ yark_json' = FullFile(ArchiveToDict(archive))
            /\ yark_bak' = yark_bak]_vars

\* witness of C29: `yark new` on a path that held a store with an item: the
\* new, empty store is written and yark.bak holds the old one
NewOverExistingStore ==
    /\ pc = "done"
    /\ hist.steps = <<"commit">>
    /\ yark_json.data.videos = <<>>
    /\ yark_bak.st = "full"
    /\ yark_bak.comments = 2
    /\ yark_bak.data.version = ARCHIVE_COMPAT
    /\ yark_bak.data.videos # <<>>

\* C30: once every note request has returned 200, yark.json is whole and
\* the item of each request holds the note of that request
BothNotesKept ==
    (\A r \in Requests : viewer[r].pc = "done") =>
        /\ yark_json.st = "full"
        /\ \A r \in Requests : \E k \in DOMAIN yark_json.data.videos :
              /\ yark_json.data.videos[k].id = viewer[r].id
              /\ r \in yark_json.data.videos[k].notes

\* C31: a note timestamp of t seconds that is encoded and decoded again
\* is t seconds
TimestampRoundTrip ==
    stamp.pc = "read" => stamp.back = Some(stamp.secs)

====
